---- MODULE Spec2Model ----
(***************************************************************************)
(* A model of HinteDI (src/hintedi/hinted_dependency_injector.py): the     *)
(* class-level registry `dependencies`, the registration decorators, the   *)
(* resolution of an annotation to a value, and key based re-resolution     *)
(* through an ImplementationFactory or an attached resolve_from_key.       *)
(*                                                                         *)
(* Python values are records tagged by their Python type:                  *)
(*   None                      [type |-> "NoneType"]                       *)
(*   InstanceSentinel()        [type |-> "InstanceSentinel"]               *)
(*   a class                   [type |-> "type", cls |-> c]                *)
(*   a str                     [type |-> "str", s |-> tokens]              *)
(*   a dict                    [type |-> "dict", items |-> function]       *)
(*   ImplementationFactory     [type |-> "ImplementationFactory", base]    *)
(*   an instance of a class    [type |-> "object", id |-> heap address]    *)
(* The classes handed to the injector are user classes: none of them is    *)
(* dict, NoneType, InstanceSentinel or ImplementationFactory itself.       *)
(***************************************************************************)
EXTENDS Integers, Sequences, FiniteSets, TLC

VARIABLES
    dependencies,   \* HinteDI.dependencies: registered class -> record
    order,          \* insertion order of the keys of HinteDI.dependencies
                    \* that share their __name__ with another class
    heap,           \* every instance constructed so far: address -> object
    pc,             \* concurrent resolution: each thread's position
    frame,          \* concurrent resolution: each thread's locals
    ret             \* concurrent resolution: what each thread's call returned

vars == <<dependencies, order, heap, pc, frame, ret>>

(***************************************************************************)
(* Bounds of the model.                                                    *)
(***************************************************************************)
MaxObjects == 2
MaxImplementations == 2
MaxArgs == 2

(***************************************************************************)
(* The user classes.  QualName is the dotted path that str(cls) prints,    *)
(* split at the dots.  Two of the classes share their __name__, as the     *)
(* function-local classes of the test-suite do.  One class defines an      *)
(* attribute named resolve_from_key in its body (InvalidAttributeHolder of *)
(* the test-suite), one assigns it in its constructor, one has none.       *)
(***************************************************************************)
Classes == {"m.Base", "m.test.<locals>.Base", "m.Impl"}

QualName(c) ==
    CASE c = "m.Base" -> <<"m", "Base">>
      [] c = "m.test.<locals>.Base" -> <<"m", "test", "<locals>", "Base">>
      [] c = "m.Impl" -> <<"m", "Impl">>

\* cls.__name__
Name(c) == QualName(c)[Len(QualName(c))]

\* another class has the same __name__
SharesName(c) == \E d \in Classes \ {c} : Name(d) = Name(c)

\* the class body defines an attribute named resolve_from_key
ClassDefinesResolveFromKey(c) == c = "m.Base"

\* the constructor assigns self.resolve_from_key
CtorSetsResolveFromKey(c) == c = "m.test.<locals>.Base"

\* the classes decorated with HinteDI.abstract_base
BaseClasses == {"m.Base", "m.test.<locals>.Base"}

Keys == {"default", "k"}
DefaultImplementation == "<DefaultImplementationSentinel>"
AllKeys == Keys \cup {DefaultImplementation}

NoneValue == [type |-> "NoneType"]
InstanceSentinel == [type |-> "InstanceSentinel"]
TypeValue(c) == [type |-> "type", cls |-> c]
StrValue(s) == [type |-> "str", s |-> s]
DictValue(items) == [type |-> "dict", items |-> items]
ImplementationFactory(base) == [type |-> "ImplementationFactory", base |-> base]
ObjectValue(id) == [type |-> "object", id |-> id]
ParameterEmpty == [type |-> "Parameter.empty"]

\* how a call ends
Return(v) == [outcome |-> "return", value |-> v]
Raise(exc, cause, names) ==
    [outcome |-> "raise", exc |-> exc, cause |-> cause, names |-> names]
InjectionException(cause, names) == Raise("InjectionException", cause, names)

\* the registry part of the state, threaded through the calls below
Store == [deps |-> dependencies, order |-> order, heap |-> heap]
Call(st, out) == [st |-> st, out |-> out]

(***************************************************************************)
(* Strings.  A Python str is a sequence of tokens; "." is a token of its   *)
(* own and "'>" is one token of two characters, so that split(".") and     *)
(* [:-2] are computed on the tokens as Python computes them on characters. *)
(***************************************************************************)
RECURSIVE Dotted(_)
Dotted(q) ==
    IF Len(q) = 1 THEN <<q[1]>> ELSE <<q[1], ".">> \o Dotted(Tail(q))

\* str(cls) == "<class 'module.qualname'>"
StrOfClass(c) == <<"<class '">> \o Dotted(QualName(c)) \o <<"'>">>

\* s.split(".")[-1]
RECURSIVE LastDotSegment(_)
LastDotSegment(s) ==
    IF \E i \in 1..Len(s) : s[i] = "."
    THEN LastDotSegment(Tail(s))
    ELSE s

\* s[:-2], for an s that ends in the two-character token "'>"
DropLastTwo(s) == SubSeq(s, 1, Len(s) - 1)

(***************************************************************************)
(* hasattr(x, "resolve_from_key")                                          *)
(***************************************************************************)
NoAttribute == "<no attribute>"
OwnAttribute == "<set by __init__>"

\* hasattr(dependency_class, "resolve_from_key"), on a class
ClassHasResolveFromKey(c) == ClassDefinesResolveFromKey(c)

\* hasattr(dependency, "resolve_from_key"), on a resolved value
HasResolveFromKey(st, v) ==
    \/ v.type = "ImplementationFactory"
    \/ /\ v.type = "object"
       /\ \/ st.heap[v.id].resolve_from_key # NoAttribute
          \/ ClassHasResolveFromKey(st.heap[v.id].cls)

(***************************************************************************)
(* annotation(): the constructor of a user class.  It may raise; when it   *)
(* returns, the new object lives at the next free address.                 *)
(***************************************************************************)
NewObject(c) ==
    [cls |-> c,
     resolve_from_key |->
        IF CtorSetsResolveFromKey(c) THEN OwnAttribute ELSE NoAttribute]

Construct(st, c, ctorRaises) ==
    IF ctorRaises
    THEN Call(st, Raise("UserError", "ConstructorRaised", <<Name(c)>>))
    ELSE Call([st EXCEPT !.heap = Append(@, NewObject(c))],
              Return(ObjectValue(Len(st.heap) + 1)))

(***************************************************************************)
(* Registration.                                                           *)
(***************************************************************************)
\* _add_dependency without the test of lines 278 to 280: a second
\* registration replaces the record of the first.  C23 tells the two apart.
_add_dependency_overwriting(st, dependency_class, default_value) ==
    Call([st EXCEPT
            !.deps = (dependency_class :> default_value)
                        @@ [c \in DOMAIN @ \ {dependency_class} |-> @[c]],
            !.order = IF SharesName(dependency_class)
                         /\ dependency_class \notin DOMAIN st.deps
                      THEN Append(@, dependency_class)
                      ELSE @],
         Return(NoneValue))

_add_dependency(st, dependency_class, default_value) ==
    IF dependency_class \in DOMAIN st.deps
    THEN Call(st, InjectionException("DuplicateRegistration",
                                     <<Name(dependency_class)>>))
    ELSE Call([st EXCEPT !.deps = (dependency_class :> default_value) @@ @,
                         !.order = IF SharesName(dependency_class)
                                   THEN Append(@, dependency_class)
                                   ELSE @],
              Return(NoneValue))

_assert_base_present(st, base, implementation) ==
    IF base \notin DOMAIN st.deps
    THEN Call(st, InjectionException("UnregisteredBase",
                                     <<Name(implementation), Name(base)>>))
    ELSE Call(st, Return(NoneValue))

\* cls.dependencies[base] is subscripted and searched as a dict; None, an
\* InstanceSentinel or a cached instance of a user class is neither
\* subscriptable nor iterable, and Python raises TypeError.
\* _create_key without the test of lines 260 to 263: a second default
\* replaces the first.  C13 tells the two apart.
_create_key_replacing(st, base, key, dependency_class, is_default) ==
    LET record == st.deps[base]
        items == record.items
    IN  IF record.type # "dict"
        THEN Call(st, Raise("TypeError", "NotADict", <<Name(base)>>))
        ELSE IF key \in DOMAIN items
        THEN IF items[key].type = "type"
             THEN Call(st, InjectionException("DuplicateKey",
                    <<Name(dependency_class), Name(base), key,
                      Name(items[key].cls)>>))
             ELSE Call(st, Raise("AttributeError", "NoName", <<key>>))
        ELSE IF is_default /\ ClassHasResolveFromKey(dependency_class)
        THEN Call(st, InjectionException("ReservedCapabilityConflict",
                <<Name(dependency_class), Name(base)>>))
        ELSE LET keyed == (key :> TypeValue(dependency_class)) @@ items
                 both == IF is_default
                         THEN (DefaultImplementation :>
                                  TypeValue(dependency_class)) @@ keyed
                         ELSE keyed
             IN  Call([st EXCEPT !.deps[base] = DictValue(both)],
                      Return(NoneValue))

\* _create_key without the test of lines 268 to 271: a class that has a
\* resolve_from_key of its own becomes a default.  C15 tells the two apart.
_create_key_unreserved(st, base, key, dependency_class, is_default) ==
    LET record == st.deps[base]
        items == record.items
    IN  IF record.type # "dict"
        THEN Call(st, Raise("TypeError", "NotADict", <<Name(base)>>))
        ELSE IF is_default
                /\ items[DefaultImplementation].type # "ImplementationFactory"
        THEN Call(st, InjectionException("DuplicateDefault",
                <<Name(dependency_class), Name(base),
                  Name(items[DefaultImplementation].cls)>>))
        ELSE IF key \in DOMAIN items
        THEN IF items[key].type = "type"
             THEN Call(st, InjectionException("DuplicateKey",
                    <<Name(dependency_class), Name(base), key,
                      Name(items[key].cls)>>))
             ELSE Call(st, Raise("AttributeError", "NoName", <<key>>))
        ELSE LET keyed == (key :> TypeValue(dependency_class)) @@ items
                 both == IF is_default
                         THEN (DefaultImplementation :>
                                  TypeValue(dependency_class)) @@ keyed
                         ELSE keyed
             IN  Call([st EXCEPT !.deps[base] = DictValue(both)],
                      Return(NoneValue))

_create_key(st, base, key, dependency_class, is_default) ==
    LET record == st.deps[base]
        items == record.items
    IN  IF record.type # "dict"
        THEN Call(st, Raise("TypeError", "NotADict", <<Name(base)>>))
        ELSE IF is_default
                /\ items[DefaultImplementation].type # "ImplementationFactory"
        THEN Call(st, InjectionException("DuplicateDefault",
                <<Name(dependency_class), Name(base),
                  Name(items[DefaultImplementation].cls)>>))
        ELSE IF key \in DOMAIN items
        THEN IF items[key].type = "type"
             THEN Call(st, InjectionException("DuplicateKey",
                    <<Name(dependency_class), Name(base), key,
                      Name(items[key].cls)>>))
             \* an ImplementationFactory instance has no __name__
             ELSE Call(st, Raise("AttributeError", "NoName", <<key>>))
        ELSE IF is_default /\ ClassHasResolveFromKey(dependency_class)
        THEN Call(st, InjectionException("ReservedCapabilityConflict",
                <<Name(dependency_class), Name(base)>>))
        ELSE LET keyed == (key :> TypeValue(dependency_class)) @@ items
                 both == IF is_default
                         THEN (DefaultImplementation :>
                                  TypeValue(dependency_class)) @@ keyed
                         ELSE keyed
             IN  Call([st EXCEPT !.deps[base] = DictValue(both)],
                      Return(NoneValue))

\* _create_implementation passing None to _add_dependency whatever the
\* decorator: every implementation is a Singleton.  C17 tells the two apart.
_create_implementation_as_singleton(st, base, key, is_default, dependency_class, default_value) ==
    LET present == _assert_base_present(st, base, dependency_class)
        keyed == _create_key(st, base, key, dependency_class, is_default)
        added == _add_dependency(keyed.st, dependency_class, NoneValue)
    IN  IF present.out.outcome = "raise" THEN present
        ELSE IF keyed.out.outcome = "raise" THEN keyed
        ELSE IF added.out.outcome = "raise" THEN added
        ELSE Call(added.st, Return(TypeValue(dependency_class)))

_create_implementation(st, base, key, is_default, dependency_class, default_value) ==
    LET present == _assert_base_present(st, base, dependency_class)
        keyed == _create_key(st, base, key, dependency_class, is_default)
        added == _add_dependency(keyed.st, dependency_class, default_value)
    IN  IF present.out.outcome = "raise" THEN present
        ELSE IF keyed.out.outcome = "raise" THEN keyed
        ELSE IF added.out.outcome = "raise" THEN added
        ELSE Call(added.st, Return(TypeValue(dependency_class)))

singleton(st, dependency_class) ==
    LET added == _add_dependency(st, dependency_class, NoneValue)
    IN  IF added.out.outcome = "raise" THEN added
        ELSE Call(added.st, Return(TypeValue(dependency_class)))

instance(st, dependency_class) ==
    LET added == _add_dependency(st, dependency_class, InstanceSentinel)
    IN  IF added.out.outcome = "raise" THEN added
        ELSE Call(added.st, Return(TypeValue(dependency_class)))

abstract_base(st, dependency_class) ==
    LET base_dict == DictValue(DefaultImplementation :>
                                   ImplementationFactory(dependency_class))
        added == _add_dependency(st, dependency_class, base_dict)
    IN  IF added.out.outcome = "raise" THEN added
        ELSE Call(added.st, Return(TypeValue(dependency_class)))

singleton_implementation(st, base, key, is_default, dependency_class) ==
    _create_implementation(st, base, key, is_default, dependency_class,
                           NoneValue)

instance_implementation(st, base, key, is_default, dependency_class) ==
    _create_implementation(st, base, key, is_default, dependency_class,
                           InstanceSentinel)

(***************************************************************************)
(* Resolution.                                                             *)
(***************************************************************************)
\* annotation == str(dependency).split(".")[-1][:-2]
\*     or annotation == str(dependency)
NamedBy(s, dependency) ==
    \/ s = DropLastTwo(LastDotSegment(StrOfClass(dependency)))
    \/ s = StrOfClass(dependency)

\* The loop over the dict returns the first key, in insertion order, that the
\* str names.  Keys that one str names have the same __name__ (a str() form
\* names one class only), so their order is the one `order` keeps.
RECURSIVE FirstNamed(_, _)
FirstNamed(classes, s) ==
    IF classes = <<>> THEN NoneValue
    ELSE IF NamedBy(s, Head(classes)) THEN TypeValue(Head(classes))
    ELSE FirstNamed(Tail(classes), s)

FirstNamedDependency(st, s) ==
    LET named == {c \in DOMAIN st.deps : NamedBy(s, c)}
    IN  IF named = {} THEN NoneValue
        ELSE IF Cardinality(named) = 1
        THEN TypeValue(CHOOSE c \in named : TRUE)
        ELSE FirstNamed(st.order, s)

_is_dependency_present(st, annotation) ==
    IF annotation.type = "type" /\ annotation.cls \in DOMAIN st.deps
    THEN annotation
    ELSE IF annotation.type = "str"
    THEN FirstNamedDependency(st, annotation.s)
    ELSE NoneValue

_assert_implemented(st, abstract) ==
    IF Cardinality(DOMAIN st.deps[abstract].items) = 1
    THEN Call(st, InjectionException("NoImplementations",
                                     <<Name(abstract)>>))
    ELSE Call(st, Return(NoneValue))

_assert_valid_key_or_default(st, abstract, key) ==
    IF key \notin DOMAIN st.deps[abstract].items
    THEN DefaultImplementation
    ELSE key

\* A chain of abstract bases longer than the number of classes visits one of
\* them twice and so never ends: Python stops it with RecursionError.
RecursionLimit == Cardinality(Classes)

RECURSIVE _get_dependency(_, _, _, _)

\* _get_default_abstract_dependency without its hasattr test: the extension
\* replaces whatever attribute the value had.  C9 tells the two apart.
_get_default_abstract_dependency_overwriting(st, abstract, ctorRaises, depth) ==
    LET implemented == _assert_implemented(st, abstract)
        key == _assert_valid_key_or_default(st, abstract, "default")
        entry == st.deps[abstract].items[key]
        real_resolved_type == _is_dependency_present(st, entry)
        resolved == _get_dependency(st, real_resolved_type, ctorRaises,
                                    depth + 1)
    IN  IF implemented.out.outcome = "raise" THEN implemented
        ELSE IF entry.type = "ImplementationFactory" THEN Call(st, Return(entry))
        ELSE IF resolved.out.outcome = "raise" THEN resolved
        ELSE IF resolved.out.value.type = "object"
        THEN Call([resolved.st EXCEPT
                      !.heap[resolved.out.value.id].resolve_from_key = abstract],
                  resolved.out)
        ELSE resolved

\* _get_default_abstract_dependency keeping what it resolved in the mapping,
\* in place of the class.  C28 tells the two apart.
_get_default_abstract_dependency_caching(st, abstract, ctorRaises, depth) ==
    LET implemented == _assert_implemented(st, abstract)
        key == _assert_valid_key_or_default(st, abstract, "default")
        entry == st.deps[abstract].items[key]
        real_resolved_type == _is_dependency_present(st, entry)
        resolved == _get_dependency(st, real_resolved_type, ctorRaises,
                                    depth + 1)
    IN  IF implemented.out.outcome = "raise" THEN implemented
        ELSE IF entry.type = "ImplementationFactory" THEN Call(st, Return(entry))
        ELSE IF resolved.out.outcome = "raise" THEN resolved
        ELSE Call([resolved.st EXCEPT
                      !.deps[abstract].items[key] = resolved.out.value],
                  resolved.out)

_get_default_abstract_dependency(st, abstract, ctorRaises, depth) ==
    LET implemented == _assert_implemented(st, abstract)
        key == _assert_valid_key_or_default(st, abstract, "default")
        entry == st.deps[abstract].items[key]
        real_resolved_type == _is_dependency_present(st, entry)
        resolved == _get_dependency(st, real_resolved_type, ctorRaises,
                                    depth + 1)
        dependency == resolved.out.value
    IN  IF implemented.out.outcome = "raise" THEN implemented
        ELSE IF entry.type = "ImplementationFactory" THEN Call(st, Return(entry))
        ELSE IF resolved.out.outcome = "raise" THEN resolved
        ELSE IF ~HasResolveFromKey(resolved.st, dependency)
        THEN Call([resolved.st EXCEPT
                      !.heap[dependency.id].resolve_from_key = abstract],
                  resolved.out)
        ELSE resolved

\* _get_dependency without the assignment of line 379: a Singleton is
\* constructed and returned, and not kept.  C1 tells the two apart.
_get_dependency_uncached(st, annotation, ctorRaises, depth) ==
    IF depth > RecursionLimit
    THEN Call(st, Raise("RecursionError", "RecursionLimit", <<>>))
    ELSE IF annotation.type # "type" \/ annotation.cls \notin DOMAIN st.deps
    THEN Call(st, Raise("KeyError", "NotAKey", <<>>))
    ELSE LET record == st.deps[annotation.cls]
         IN  IF record.type \in {"InstanceSentinel", "NoneType"}
             THEN Construct(st, annotation.cls, ctorRaises)
             ELSE IF record.type = "dict"
             THEN _get_default_abstract_dependency(st, annotation.cls,
                                                   ctorRaises, depth)
             ELSE Call(st, Return(record))

\* _get_dependency without the test of line 374: an Instance is kept as a
\* Singleton is.  C2 tells the two apart.
_get_dependency_keeping(st, annotation, ctorRaises, depth) ==
    IF depth > RecursionLimit
    THEN Call(st, Raise("RecursionError", "RecursionLimit", <<>>))
    ELSE IF annotation.type # "type" \/ annotation.cls \notin DOMAIN st.deps
    THEN Call(st, Raise("KeyError", "NotAKey", <<>>))
    ELSE LET record == st.deps[annotation.cls]
             made == Construct(st, annotation.cls, ctorRaises)
         IN  IF record.type = "dict"
             THEN _get_default_abstract_dependency(st, annotation.cls,
                                                   ctorRaises, depth)
             ELSE IF record.type \in {"InstanceSentinel", "NoneType"}
             THEN IF made.out.outcome = "raise" THEN made
                  ELSE Call([made.st EXCEPT
                               !.deps[annotation.cls] = made.out.value],
                            made.out)
             ELSE Call(st, Return(record))

\* _get_dependency storing the new object before its constructor has run:
\* when the constructor raises, the object stays in the cache.  C24 tells
\* the two apart.
_get_dependency_caching_early(st, annotation, ctorRaises, depth) ==
    IF depth > RecursionLimit
    THEN Call(st, Raise("RecursionError", "RecursionLimit", <<>>))
    ELSE IF annotation.type # "type" \/ annotation.cls \notin DOMAIN st.deps
    THEN Call(st, Raise("KeyError", "NotAKey", <<>>))
    ELSE LET record == st.deps[annotation.cls]
             made == Construct(st, annotation.cls, ctorRaises)
             allocated == Construct(st, annotation.cls, FALSE)
         IN  IF record.type = "InstanceSentinel" THEN made
             ELSE IF record.type = "dict"
             THEN _get_default_abstract_dependency(st, annotation.cls,
                                                   ctorRaises, depth)
             ELSE IF record.type = "NoneType"
             THEN Call([allocated.st EXCEPT
                          !.deps[annotation.cls] = allocated.out.value],
                       made.out)
             ELSE Call(st, Return(record))

_get_dependency(st, annotation, ctorRaises, depth) ==
    IF depth > RecursionLimit
    THEN Call(st, Raise("RecursionError", "RecursionLimit", <<>>))
    ELSE IF annotation.type # "type" \/ annotation.cls \notin DOMAIN st.deps
    THEN Call(st, Raise("KeyError", "NotAKey", <<>>))
    ELSE LET record == st.deps[annotation.cls]
             made == Construct(st, annotation.cls, ctorRaises)
         IN  IF record.type = "InstanceSentinel" THEN made
             ELSE IF record.type = "dict"
             THEN _get_default_abstract_dependency(st, annotation.cls,
                                                   ctorRaises, depth)
             ELSE IF record.type = "NoneType"
             THEN IF made.out.outcome = "raise" THEN made
                  ELSE Call([made.st EXCEPT
                               !.deps[annotation.cls] = made.out.value],
                            made.out)
             ELSE Call(st, Return(record))

\* _inject_arg without the test of lines 353 and 354: Parameter.empty is
\* looked up as a class that is not registered.  C21 tells the two apart.
_inject_arg_unchecked(st, annotation, ctorRaises) ==
    LET real_key == _is_dependency_present(st, annotation)
    IN  IF real_key.type # "NoneType"
        THEN _get_dependency(st, real_key, ctorRaises, 0)
        ELSE IF annotation.type \in {"type", "Parameter.empty"}
        THEN Call(st, InjectionException("UnresolvedDependency", <<>>))
        ELSE Call(st, Raise("AttributeError", "NoName", <<>>))

\* The names the error message is built from: a str has no __name__, and
\* building the message for one raises AttributeError instead.
_inject_arg(st, annotation, ctorRaises) ==
    LET real_key == _is_dependency_present(st, annotation)
    IN  IF annotation.type = "Parameter.empty"
        THEN Call(st, InjectionException("MissingAnnotation", <<>>))
        ELSE IF real_key.type # "NoneType"
        THEN _get_dependency(st, real_key, ctorRaises, 0)
        ELSE IF annotation.type = "type"
        THEN Call(st, InjectionException("UnresolvedDependency",
                                         <<Name(annotation.cls)>>))
        ELSE Call(st, Raise("AttributeError", "NoName", <<>>))

\* _resolve_from_key calling the mapped class itself instead of
\* _get_dependency: every pivot constructs.  C8 tells the two apart.
_resolve_from_key_constructing(st, base, key, ctorRaises) ==
    IF key \in DOMAIN st.deps[base].items
          /\ st.deps[base].items[key].type = "type"
    THEN Construct(st, st.deps[base].items[key].cls, ctorRaises)
    ELSE Call(st, InjectionException("UnresolvableKey", <<key, Name(base)>>))

(***************************************************************************)
(* Injection.  A decorated callable is the sequence of its parameters, as  *)
(* inspect.signature lists them; a call gives positional values and the    *)
(* names of the keyword arguments.                                         *)
(***************************************************************************)
Parameter(name, kind, has_default, annotation) ==
    [name |-> name, kind |-> kind, has_default |-> has_default,
     annotation |-> annotation]

\* def __init__(self, injectable: Impl, default: bool = True, *args, **kwargs)
Dependent_init ==
    <<Parameter("self", "POSITIONAL_OR_KEYWORD", FALSE, ParameterEmpty),
      Parameter("injectable", "POSITIONAL_OR_KEYWORD", FALSE,
                TypeValue("m.Impl")),
      Parameter("default", "POSITIONAL_OR_KEYWORD", TRUE, ParameterEmpty),
      Parameter("args", "VAR_POSITIONAL", FALSE, ParameterEmpty),
      Parameter("kwargs", "VAR_KEYWORD", FALSE, ParameterEmpty)>>

\* def provided_test(first: Impl, second: Base)
provided_test ==
    <<Parameter("first", "POSITIONAL_OR_KEYWORD", FALSE, TypeValue("m.Impl")),
      Parameter("second", "POSITIONAL_OR_KEYWORD", FALSE,
                TypeValue("m.test.<locals>.Base"))>>

\* def args_test(argument: Base, /, *, option: Impl)
args_test ==
    <<Parameter("argument", "POSITIONAL_ONLY", FALSE, TypeValue("m.Base")),
      Parameter("option", "KEYWORD_ONLY", FALSE, TypeValue("m.Impl"))>>

\* def __init__(self, dependency)
DependentClass_init ==
    <<Parameter("self", "POSITIONAL_OR_KEYWORD", FALSE, ParameterEmpty),
      Parameter("dependency", "POSITIONAL_OR_KEYWORD", FALSE, ParameterEmpty)>>

\* def partly_annotated(first: Impl, dependency)
partly_annotated ==
    <<Parameter("first", "POSITIONAL_OR_KEYWORD", FALSE, TypeValue("m.Impl")),
      Parameter("dependency", "POSITIONAL_OR_KEYWORD", FALSE, ParameterEmpty)>>

Functions ==
    {Dependent_init, provided_test, args_test, DependentClass_init,
     partly_annotated}

\* what the caller passes: the i-th positional value, the value for a name
PositionalValue(i) == [type |-> "positional", index |-> i]
KeywordValue(name) == [type |-> "keyword", name |-> name]
Arguments == {[i \in 1..n |-> PositionalValue(i)] : n \in 0..MaxArgs}
KeywordNames == {"first", "injectable", "option", "extra"}
KeywordArguments == {{}} \cup {{name} : name \in KeywordNames}

\* _is_injectable_argument without its test of the kind: keyword-only
\* parameters, *args and **kwargs are injected too.  C19 tells the two apart.
_is_injectable_argument_of_any_kind(arg) == ~arg.has_default

_is_injectable_argument(arg) ==
    /\ arg.kind \in {"POSITIONAL_OR_KEYWORD", "POSITIONAL_ONLY"}
    /\ ~arg.has_default

_is_method_target_argument(arg) == arg.name \in {"self", "cls"}

\* list(func_args.parameters.values())[len(args):]
ParametersBeyond(func, args) == SubSeq(func, Len(args) + 1, Len(func))

\* the loop of _inject_needed over the parameters left, injected so far
RECURSIVE InjectEach(_, _, _, _)
InjectEach(st, parameters, injected, ctorRaises) ==
    IF parameters = <<>> THEN Call(st, Return(injected))
    ELSE LET arg == Head(parameters)
             resolved == _inject_arg(st, arg.annotation, ctorRaises)
         IN  IF ~(_is_injectable_argument(arg)
                    /\ ~_is_method_target_argument(arg))
             THEN InjectEach(st, Tail(parameters), injected, ctorRaises)
             ELSE IF resolved.out.outcome = "raise" THEN resolved
             ELSE InjectEach(resolved.st, Tail(parameters),
                             Append(injected, resolved.out.value), ctorRaises)

\* func(*positional, **keywords): Python binds the arguments to the
\* parameters, or raises TypeError
PositionalParameters(func) ==
    SelectSeq(func, LAMBDA arg :
        arg.kind \in {"POSITIONAL_OR_KEYWORD", "POSITIONAL_ONLY"})

ParameterNames(func, kinds) ==
    {func[i].name : i \in {j \in DOMAIN func : func[j].kind \in kinds}}

CallFunction(func, positional, keywords) ==
    LET slots == PositionalParameters(func)
        filled == IF Len(positional) < Len(slots)
                  THEN Len(positional) ELSE Len(slots)
        by_position == {slots[i].name : i \in 1..filled}
        nameable == ParameterNames(func,
                        {"POSITIONAL_OR_KEYWORD", "KEYWORD_ONLY"})
        by_keyword == keywords \cap nameable
        required == {func[i].name : i \in {j \in DOMAIN func :
                        /\ func[j].kind \in {"POSITIONAL_OR_KEYWORD",
                                              "POSITIONAL_ONLY", "KEYWORD_ONLY"}
                        /\ ~func[j].has_default}}
        position(name) == CHOOSE i \in 1..filled : slots[i].name = name
    IN  IF by_keyword \cap by_position # {}
        THEN Raise("TypeError", "MultipleValues", <<>>)
        ELSE IF keywords \ nameable # {}
                /\ ParameterNames(func, {"VAR_KEYWORD"}) = {}
        THEN Raise("TypeError", "UnexpectedKeyword", <<>>)
        ELSE IF Len(positional) > Len(slots)
                /\ ParameterNames(func, {"VAR_POSITIONAL"}) = {}
        THEN Raise("TypeError", "TooManyPositional", <<>>)
        ELSE IF required \ (by_position \cup by_keyword) # {}
        THEN Raise("TypeError", "MissingArgument", <<>>)
        ELSE Return([type |-> "frame",
                     locals |-> [name \in by_position \cup by_keyword |->
                                   IF name \in by_position
                                   THEN positional[position(name)]
                                   ELSE KeywordValue(name)],
                     args |-> SubSeq(positional, filled + 1, Len(positional)),
                     kwargs |-> keywords \ nameable])

\* the wrapped callable returns the arguments it was called with
_inject_needed(st, func, args, kwargs, ctorRaises) ==
    LET injected == InjectEach(st, ParametersBeyond(func, args), <<>>,
                               ctorRaises)
    IN  IF injected.out.outcome = "raise" THEN injected
        ELSE Call(injected.st,
                  CallFunction(func, args \o injected.out.value, kwargs))

\* _resolve_from_key attaching the extension to what it returns, as lines
\* 390 and 391 do for the default.  C25 tells the two apart.
_resolve_from_key_attaching(st, base, key, ctorRaises) ==
    LET resolved == _get_dependency(st, st.deps[base].items[key], ctorRaises, 0)
        dependency == resolved.out.value
    IN  IF key \notin DOMAIN st.deps[base].items
        THEN Call(st, InjectionException("UnresolvableKey", <<key, Name(base)>>))
        ELSE IF resolved.out.outcome = "raise" THEN resolved
        ELSE IF ~HasResolveFromKey(resolved.st, dependency)
        THEN Call([resolved.st EXCEPT
                      !.heap[dependency.id].resolve_from_key = base],
                  resolved.out)
        ELSE resolved

\* _resolve_from_key closing over the mapping as abstract_base made it (the
\* base_dict of lines 144 to 146, copied) instead of looking the base up in
\* cls.dependencies at each call.  C29 tells the two apart.
_resolve_from_key_of_seed(st, base, key, ctorRaises) ==
    IF key = DefaultImplementation
    THEN _get_dependency(st, ImplementationFactory(base), ctorRaises, 0)
    ELSE Call(st, InjectionException("UnresolvableKey", <<key, Name(base)>>))

\* the closure _resolve_from_key(base) returns, applied to key
_resolve_from_key(st, base, key, ctorRaises) ==
    IF key \in DOMAIN st.deps[base].items
    THEN _get_dependency(st, st.deps[base].items[key], ctorRaises, 0)
    ELSE Call(st, InjectionException("UnresolvableKey", <<key, Name(base)>>))

\* ImplementationFactory.resolve_from_key, on the factory of base
ImplementationFactory_resolve_from_key(st, base, key, ctorRaises) ==
    _resolve_from_key(st, base, key, ctorRaises)

(***************************************************************************)
(* The state machine: one action per call of the public surface.           *)
(***************************************************************************)
Threads == {"t1", "t2"}
NoFrame == [annotation |-> NoneValue, made |-> NoneValue]
NoResult == Return(NoneValue)

Init ==
    /\ dependencies = [c \in {} |-> NoneValue]
    /\ order = <<>>
    /\ heap = <<>>
    /\ pc = [t \in Threads |-> "idle"]
    /\ frame = [t \in Threads |-> NoFrame]
    /\ ret = [t \in Threads |-> NoResult]

\* the str annotations tried: trailing names, a str() form, a name of nothing
StrAnnotations ==
    {<<"Impl">>, <<"Base">>, <<"Nope">>, StrOfClass("m.test.<locals>.Base")}

Annotations ==
    {TypeValue(c) : c \in Classes}
        \cup {StrValue(s) : s \in StrAnnotations}
        \cup {ParameterEmpty}

\* the keyed entries of every implementation dict, the default's aside
Implementations(deps) ==
    {<<b, k>> \in (DOMAIN deps) \X Keys :
        deps[b].type = "dict" /\ k \in DOMAIN deps[b].items}

WithinBounds(call) ==
    /\ Len(call.st.heap) <= MaxObjects
    /\ Cardinality(Implementations(call.st.deps)) <= MaxImplementations

\* A call ends, returning or raising, and leaves the registry as it made it.
Finish(call) ==
    /\ WithinBounds(call)
    /\ dependencies' = call.st.deps
    /\ order' = call.st.order
    /\ heap' = call.st.heap

Idle == \A t \in Threads : pc[t] = "idle"

Decorate_singleton(c) ==
    /\ Idle
    /\ Finish(singleton(Store, c))
    /\ UNCHANGED <<pc, frame, ret>>

Decorate_instance(c) ==
    /\ Idle
    /\ Finish(instance(Store, c))
    /\ UNCHANGED <<pc, frame, ret>>

Decorate_abstract_base(c) ==
    /\ Idle
    /\ Finish(abstract_base(Store, c))
    /\ UNCHANGED <<pc, frame, ret>>

Decorate_singleton_implementation(base, key, is_default, c) ==
    /\ Idle
    /\ Finish(singleton_implementation(Store, base, key, is_default, c))
    /\ UNCHANGED <<pc, frame, ret>>

Decorate_instance_implementation(base, key, is_default, c) ==
    /\ Idle
    /\ Finish(instance_implementation(Store, base, key, is_default, c))
    /\ UNCHANGED <<pc, frame, ret>>

\* a call of an @inject function of one parameter, which returns it
Inject(annotation, ctorRaises) ==
    /\ Idle
    /\ Finish(_inject_arg(Store, annotation, ctorRaises))
    /\ UNCHANGED <<pc, frame, ret>>

\* a call of an @inject function or method
InjectNeeded(func, args, kwargs, ctorRaises) ==
    /\ Idle
    /\ Finish(_inject_needed(Store, func, args, kwargs, ctorRaises))
    /\ UNCHANGED <<pc, frame, ret>>

\* factory.resolve_from_key(key), on the ImplementationFactory that
\* abstract_base made for base: a caller holds it from an injection or takes
\* it from the exposed dependencies dict
FactoryResolveFromKey(base, key, ctorRaises) ==
    /\ Idle
    /\ base \in DOMAIN dependencies
    /\ dependencies[base].type = "dict"
    /\ Finish(ImplementationFactory_resolve_from_key(Store, base, key,
                                                     ctorRaises))
    /\ UNCHANGED <<pc, frame, ret>>

\* the base the extension attached to the object at address id is bound to
BoundBase(id) == heap[id].resolve_from_key

\* value.resolve_from_key(key), on a resolved value carrying the extension
ValueResolveFromKey(id, key, ctorRaises) ==
    /\ Idle
    /\ id \in DOMAIN heap
    /\ BoundBase(id) \in Classes
    /\ Finish(_resolve_from_key(Store, BoundBase(id), key, ctorRaises))
    /\ UNCHANGED <<pc, frame, ret>>

Next ==
    \/ \E c \in Classes : Decorate_singleton(c)
    \/ \E c \in Classes : Decorate_instance(c)
    \/ \E c \in BaseClasses : Decorate_abstract_base(c)
    \/ \E base \in Classes, key \in AllKeys, is_default \in BOOLEAN,
          c \in Classes :
            Decorate_singleton_implementation(base, key, is_default, c)
    \/ \E base \in Classes, key \in AllKeys, is_default \in BOOLEAN,
          c \in Classes :
            Decorate_instance_implementation(base, key, is_default, c)
    \/ \E annotation \in Annotations, ctorRaises \in BOOLEAN :
            Inject(annotation, ctorRaises)
    \/ \E func \in Functions, args \in Arguments,
          kwargs \in KeywordArguments, ctorRaises \in BOOLEAN :
            InjectNeeded(func, args, kwargs, ctorRaises)
    \/ \E base \in BaseClasses, key \in AllKeys, ctorRaises \in BOOLEAN :
            FactoryResolveFromKey(base, key, ctorRaises)
    \/ \E id \in 1..MaxObjects, key \in AllKeys, ctorRaises \in BOOLEAN :
            ValueResolveFromKey(id, key, ctorRaises)

Spec == Init /\ [][Next]_vars

(***************************************************************************)
(* Concurrent resolution.  Each thread runs _get_dependency (lines 373 to  *)
(* 380) for a Singleton or Instance identity, one read, construction or    *)
(* write of cls.dependencies at a time; the interpreter may switch threads *)
(* between any two of them.  Registration stays a call of its own, made    *)
(* while no resolution is under way.                                       *)
(***************************************************************************)
\* cls._get_dependency(annotation) is entered
T_Call(t, c) ==
    /\ pc[t] = "idle"
    /\ c \in DOMAIN dependencies
    /\ dependencies[c].type # "dict"
    /\ pc' = [pc EXCEPT ![t] = "L374"]
    /\ frame' = [frame EXCEPT ![t] = [annotation |-> TypeValue(c),
                                      made |-> NoneValue]]
    /\ ret' = [ret EXCEPT ![t] = NoResult]
    /\ UNCHANGED <<dependencies, order, heap>>

\* if type(cls.dependencies[annotation]) is InstanceSentinel:
\*     return annotation()
T_L374(t, ctorRaises) ==
    /\ pc[t] = "L374"
    /\ LET c == frame[t].annotation.cls
           made == Construct(Store, c, ctorRaises)
       IN  IF dependencies[c].type = "InstanceSentinel"
           THEN /\ Len(made.st.heap) <= MaxObjects
                /\ heap' = made.st.heap
                /\ ret' = [ret EXCEPT ![t] = made.out]
                /\ pc' = [pc EXCEPT ![t] = "idle"]
                /\ frame' = [frame EXCEPT ![t] = NoFrame]
           ELSE /\ pc' = [pc EXCEPT ![t] = "L378"]
                /\ UNCHANGED <<heap, ret, frame>>
    /\ UNCHANGED <<dependencies, order>>

\* if cls.dependencies[annotation] is None:
T_L378(t) ==
    /\ pc[t] = "L378"
    /\ pc' = [pc EXCEPT ![t] =
                IF dependencies[frame[t].annotation.cls].type = "NoneType"
                THEN "L379" ELSE "L380"]
    /\ UNCHANGED <<dependencies, order, heap, frame, ret>>

\* annotation(), the right-hand side of line 379
T_L379_construct(t, ctorRaises) ==
    /\ pc[t] = "L379"
    /\ LET made == Construct(Store, frame[t].annotation.cls, ctorRaises)
       IN  /\ Len(made.st.heap) <= MaxObjects
           /\ heap' = made.st.heap
           /\ IF made.out.outcome = "raise"
              THEN /\ ret' = [ret EXCEPT ![t] = made.out]
                   /\ pc' = [pc EXCEPT ![t] = "idle"]
                   /\ frame' = [frame EXCEPT ![t] = NoFrame]
              ELSE /\ frame' = [frame EXCEPT ![t].made = made.out.value]
                   /\ pc' = [pc EXCEPT ![t] = "L379_store"]
                   /\ UNCHANGED ret
    /\ UNCHANGED <<dependencies, order>>

\* cls.dependencies[annotation] = ..., the assignment of line 379
T_L379_store(t) ==
    /\ pc[t] = "L379_store"
    /\ dependencies' =
          [dependencies EXCEPT ![frame[t].annotation.cls] = frame[t].made]
    /\ pc' = [pc EXCEPT ![t] = "L380"]
    /\ UNCHANGED <<order, heap, frame, ret>>

\* return cls.dependencies[annotation]
T_L380(t) ==
    /\ pc[t] = "L380"
    /\ ret' = [ret EXCEPT ![t] =
                 Return(dependencies[frame[t].annotation.cls])]
    /\ pc' = [pc EXCEPT ![t] = "idle"]
    /\ frame' = [frame EXCEPT ![t] = NoFrame]
    /\ UNCHANGED <<dependencies, order, heap>>

NextConcurrent ==
    \/ \E c \in Classes : Decorate_singleton(c)
    \/ \E c \in Classes : Decorate_instance(c)
    \/ \E t \in Threads, c \in Classes : T_Call(t, c)
    \/ \E t \in Threads, ctorRaises \in BOOLEAN : T_L374(t, ctorRaises)
    \/ \E t \in Threads : T_L378(t)
    \/ \E t \in Threads, ctorRaises \in BOOLEAN :
            T_L379_construct(t, ctorRaises)
    \/ \E t \in Threads : T_L379_store(t)
    \/ \E t \in Threads : T_L380(t)

SpecConcurrent == Init /\ [][NextConcurrent]_vars

(***************************************************************************)
(* Properties.  A call is judged in the state it is made in: what it       *)
(* returns or raises, and the registry it leaves, for every reachable      *)
(* state and every input.                                                  *)
(***************************************************************************)
IsSingleton(c) ==
    c \in DOMAIN dependencies /\ dependencies[c].type \in {"NoneType", "object"}
IsInstance(c) ==
    c \in DOMAIN dependencies /\ dependencies[c].type = "InstanceSentinel"
IsAbstractBase(c) ==
    c \in DOMAIN dependencies /\ dependencies[c].type = "dict"

\* the addresses of the instances of class c constructed so far
ObjectsOf(c) == {id \in DOMAIN heap : heap[id].cls = c}

\* the call constructs one instance of c, fresh, and returns it
ReturnsFresh(call, c) ==
    /\ call.out = Return(ObjectValue(Len(heap) + 1))
    /\ Len(call.st.heap) = Len(heap) + 1
    /\ SubSeq(call.st.heap, 1, Len(heap)) = heap
    /\ call.st.heap[Len(heap) + 1].cls = c

\* resolve(identity): the injection of a parameter annotated with the class
Resolve(c, ctorRaises) == _inject_arg(Store, TypeValue(c), ctorRaises)

\* C1: a Singleton is never constructed before its first successful
\* resolve, that resolve constructs it and caches it, and from then on it is
\* the only instance of its class and every resolve returns it, leaving the
\* registry as it is.
C1_SingletonConstructedOnce ==
    \A c \in Classes : IsSingleton(c) =>
        IF dependencies[c].type = "NoneType"
        THEN /\ ObjectsOf(c) = {}
             /\ ReturnsFresh(Resolve(c, FALSE), c)
             /\ Resolve(c, FALSE).st.deps =
                    [dependencies EXCEPT ![c] = ObjectValue(Len(heap) + 1)]
             /\ Resolve(c, TRUE).st = Store
             /\ Resolve(c, TRUE).out.outcome = "raise"
        ELSE /\ ObjectsOf(c) = {dependencies[c].id}
             /\ \A ctorRaises \in BOOLEAN :
                    Resolve(c, ctorRaises) = Call(Store, Return(dependencies[c]))

\* a Singleton holds its instance, after a first resolve that cached it
C1_Witness ==
    \E c \in Classes :
        /\ IsSingleton(c)
        /\ dependencies[c].type = "object"
        /\ heap[dependencies[c].id].cls = c

\* C2: every resolve of an Instance constructs a new instance, at an
\* address no earlier value has, and the registry keeps none of them.
C2_InstanceAlwaysFresh ==
    \A c \in Classes : IsInstance(c) =>
        /\ ReturnsFresh(Resolve(c, FALSE), c)
        /\ Resolve(c, FALSE).st.deps = dependencies
        /\ \A d \in DOMAIN dependencies :
              dependencies[d].type = "object" => dependencies[d].id \notin ObjectsOf(c)

\* two resolves of one Instance have returned two instances
C2_Witness ==
    \E c \in Classes : IsInstance(c) /\ Cardinality(ObjectsOf(c)) = 2

\* C3: resolutions of one not yet constructed Singleton that overlap in
\* time all observe one instance: no two callers hold different instances of
\* a Singleton class.
C3_ConcurrentResolvesObserveOneInstance ==
    \A t1, t2 \in Threads :
        (/\ ret[t1].outcome = "return"
         /\ ret[t2].outcome = "return"
         /\ ret[t1].value.type = "object"
         /\ ret[t2].value.type = "object"
         /\ heap[ret[t1].value.id].cls = heap[ret[t2].value.id].cls
         /\ IsSingleton(heap[ret[t1].value.id].cls))
        => ret[t1].value.id = ret[t2].value.id

\* every call of a registration decorator on the class c
RegistrationCalls(c) ==
    {singleton(Store, c), instance(Store, c)}
        \cup {abstract_base(Store, b) : b \in BaseClasses \cap {c}}
        \cup {singleton_implementation(Store, base, key, is_default, c) :
                base \in Classes, key \in AllKeys, is_default \in BOOLEAN}
        \cup {instance_implementation(Store, base, key, is_default, c) :
                base \in Classes, key \in AllKeys, is_default \in BOOLEAN}

IsInjectionException(out, cause) ==
    /\ out.outcome = "raise"
    /\ out.exc = "InjectionException"
    /\ out.cause = cause

\* the base, the key and the default asked for pass the checks an
\* implementation decorator makes before it registers the class itself
PassesBaseChecks(base, key, is_default, c) ==
    /\ IsAbstractBase(base)
    /\ key \notin DOMAIN dependencies[base].items
    /\ is_default =>
          /\ dependencies[base].items[DefaultImplementation].type
                = "ImplementationFactory"
          /\ ~ClassHasResolveFromKey(c)

\* every call of a registration decorator on the class c that does not fail
\* on its base, its key or its default
ReRegistrationCalls(c) ==
    {singleton(Store, c), instance(Store, c)}
        \cup {abstract_base(Store, b) : b \in BaseClasses \cap {c}}
        \cup {singleton_implementation(Store, base, key, is_default, c) :
                <<base, key, is_default>> \in
                    {x \in Classes \X AllKeys \X BOOLEAN :
                        PassesBaseChecks(x[1], x[2], x[3], c)}}
        \cup {instance_implementation(Store, base, key, is_default, c) :
                <<base, key, is_default>> \in
                    {x \in Classes \X AllKeys \X BOOLEAN :
                        PassesBaseChecks(x[1], x[2], x[3], c)}}

\* C4: registering an identity that is already registered fails with
\* DuplicateRegistration whatever the decorator, and the identity's record
\* (its kind, its cache or its mapping) stays as the first registration and
\* the calls since made it.  Stated for the calls whose base, key and
\* default are in order, so that the identity is all that stands in the way.
C4_ReRegistrationFailsAndKeepsRecord ==
    \A c \in DOMAIN dependencies : \A call \in ReRegistrationCalls(c) :
        /\ IsInjectionException(call.out, "DuplicateRegistration")
        /\ call.st.deps[c] = dependencies[c]

\* C5: a registration that raises leaves the registry as it was before the
\* call: no record and no mapping entry is added or altered.
C5_FailedRegistrationChangesNothing ==
    \A c \in Classes : \A call \in RegistrationCalls(c) :
        call.out.outcome = "raise" => call.st = Store

\* the implementation registered with is_default=True for the base
DefaultOf(base) == dependencies[base].items[DefaultImplementation]

\* the base holds an is_default implementation that is a Singleton or an
\* Instance in its own right
HasConcreteDefault(base) ==
    /\ IsAbstractBase(base)
    /\ DefaultOf(base).type = "type"
    /\ DefaultOf(base).cls \in DOMAIN dependencies
    /\ ~IsAbstractBase(DefaultOf(base).cls)

\* every implementation in base's mapping is a Singleton or an Instance
HoldsConcreteImplementations(base) ==
    \A key \in DOMAIN dependencies[base].items :
        LET entry == dependencies[base].items[key]
        IN  entry.type = "type" =>
                entry.cls \in DOMAIN dependencies /\ ~IsAbstractBase(entry.cls)

\* C6: resolve(B) of a base whose default implementation is D yields an
\* instance of D, resolved by D's own rule, whatever else B's mapping
\* holds.  Stated for the mappings that hold Singleton and Instance
\* implementations only.
C6_DefaultResolvesToDefaultImplementation ==
    \A base \in Classes :
      (HasConcreteDefault(base) /\ HoldsConcreteImplementations(base)) =>
        LET D == DefaultOf(base).cls
            call == Resolve(base, FALSE)
        IN  /\ call.out.outcome = "return"
            /\ call.out.value.type = "object"
            /\ call.st.heap[call.out.value.id].cls = D
            /\ call.out.value = Resolve(D, FALSE).out.value

\* C7: resolve(B) of a base that has implementations, none of them the
\* default, yields B's factory and never a concrete implementation.  Stated
\* for the mappings that hold Singleton and Instance implementations only.
C7_NoDefaultResolvesToFactory ==
    \A base \in Classes :
        (/\ IsAbstractBase(base)
         /\ Cardinality(DOMAIN dependencies[base].items) > 1
         /\ HoldsConcreteImplementations(base)
         /\ DefaultOf(base).type = "ImplementationFactory")
        => Resolve(base, FALSE) = Call(Store, Return(DefaultOf(base)))

\* the keys of base's mapping that hold an implementation
ImplementationKeys(base) ==
    {key \in DOMAIN dependencies[base].items :
        dependencies[base].items[key].type = "type"}

\* C8: factory.resolve_from_key(K), where K maps to I in B's mapping, does
\* what resolve(I) does in that state: the same return or raise and the same
\* registry afterwards; a cached Singleton I comes back as cached and an
\* Instance I comes back new.
C8_FactoryPivotEqualsResolve ==
    \A base \in Classes : IsAbstractBase(base) =>
        \A key \in ImplementationKeys(base), ctorRaises \in BOOLEAN :
            LET I == dependencies[base].items[key].cls
                pivot == ImplementationFactory_resolve_from_key(
                             Store, base, key, ctorRaises)
            IN  /\ pivot = Resolve(I, ctorRaises)
                /\ (IsSingleton(I) /\ dependencies[I].type = "object")
                       => pivot = Call(Store, Return(dependencies[I]))
                /\ (IsInstance(I) /\ ~ctorRaises)
                       => ReturnsFresh(pivot, I) /\ pivot.st.deps = dependencies

\* a base without a default, the only base there is, maps a key to a
\* Singleton that has been constructed, and the pivot on that key returns it
C8_Witness ==
    \E base \in Classes :
        /\ IsAbstractBase(base)
        /\ DefaultOf(base).type = "ImplementationFactory"
        /\ \E key \in ImplementationKeys(base) :
              LET I == dependencies[base].items[key].cls
              IN  /\ IsSingleton(I)
                  /\ dependencies[I].type = "object"
                  /\ \A other \in Classes \ {base} : ~IsAbstractBase(other)
                  /\ ImplementationFactory_resolve_from_key(
                         Store, base, key, FALSE)
                       = Call(Store, Return(dependencies[I]))

\* the value carries a resolve_from_key attribute of its own: its class
\* defines one, its constructor sets one, or one was attached before
CarriesResolveFromKey(c, v) ==
    \/ ClassDefinesResolveFromKey(c)
    \/ CtorSetsResolveFromKey(c)
    \/ v.id \in DOMAIN heap /\ heap[v.id].resolve_from_key # NoAttribute

\* the base whose default resolution constructs or fetches the value: base
\* itself, unless the identity its mapping selects is an abstract base too
RECURSIVE SelectingBase(_, _)
SelectingBase(base, depth) ==
    LET key == IF "default" \in DOMAIN dependencies[base].items
               THEN "default" ELSE DefaultImplementation
        entry == dependencies[base].items[key]
    IN  IF depth < RecursionLimit /\ entry.type = "type"
           /\ IsAbstractBase(entry.cls)
        THEN SelectingBase(entry.cls, depth + 1)
        ELSE base

\* C9 as stated: every value resolve(B) returns that is not the factory
\* exposes resolve_from_key bound to B itself, whatever it carried before.
\* Stated for the bases whose mapping holds Singleton and Instance
\* implementations only, a default among them and none under "default".
C9_ExtensionAlwaysBoundToBase ==
    \A base \in Classes :
      (/\ HasConcreteDefault(base)
       /\ HoldsConcreteImplementations(base)
       /\ "default" \notin DOMAIN dependencies[base].items) =>
        LET call == Resolve(base, FALSE)
        IN  (call.out.outcome = "return" /\ call.out.value.type = "object")
            => call.st.heap[call.out.value.id].resolve_from_key = base

\* C9, amended: every value resolve(B) returns that is not the factory
\* exposes a resolve_from_key attribute.  An attribute of that name the
\* value already carried is kept as it was; only a value that carried none
\* gets the extension, bound to the base whose mapping selected it, which is
\* B whenever B's mapping selects a Singleton or an Instance.
C9_ExtensionAttachedUnlessCarried ==
    \A base \in Classes : IsAbstractBase(base) =>
        LET call == Resolve(base, FALSE)
            v == call.out.value
            c == call.st.heap[v.id].cls
            attribute == call.st.heap[v.id].resolve_from_key
        IN  (call.out.outcome = "return" /\ v.type = "object")
            => /\ HasResolveFromKey(call.st, v)
               /\ IF CarriesResolveFromKey(c, v)
                  THEN attribute = IF v.id \in DOMAIN heap
                                   THEN heap[v.id].resolve_from_key
                                   ELSE NewObject(c).resolve_from_key
                  ELSE attribute = SelectingBase(base, 0)

\* a default resolution has attached the extension to a value and bound it
\* to the base, and resolving the base again returns that value unchanged
C9_Witness ==
    \E base \in Classes :
        /\ HasConcreteDefault(base)
        /\ Resolve(base, FALSE).out.outcome = "return"
        /\ Resolve(base, FALSE).out.value.type = "object"
        /\ Resolve(base, FALSE).out.value.id \in DOMAIN heap
        /\ heap[Resolve(base, FALSE).out.value.id].resolve_from_key = base

\* C10: a pivot with a key that B's mapping does not hold, made on B's
\* factory or on the extension of a value resolve(B) returned, fails with
\* UnresolvableKey naming the key and B, and changes nothing.
C10_AbsentKeyPivotFails ==
    \A base \in Classes : IsAbstractBase(base) =>
        \A key \in AllKeys \ DOMAIN dependencies[base].items :
            LET absent == Call(Store, InjectionException(
                                   "UnresolvableKey", <<key, Name(base)>>))
                call == Resolve(base, FALSE)
                v == call.out.value
                bound == call.st.heap[v.id].resolve_from_key
            IN  /\ \A ctorRaises \in BOOLEAN :
                      ImplementationFactory_resolve_from_key(
                          Store, base, key, ctorRaises) = absent
                /\ (/\ call.out.outcome = "return"
                    /\ v.type = "object"
                    /\ bound \in Classes)
                   => \A ctorRaises \in BOOLEAN :
                         _resolve_from_key(call.st, bound, key, ctorRaises)
                             = Call(call.st, absent.out)

\* base's mapping holds the factory abstract_base seeded it with, and no more
SeedOnly(base) ==
    IsAbstractBase(base)
        /\ DOMAIN dependencies[base].items = {DefaultImplementation}

\* the step is an implementation decorator, applied for base, that returned
ImplementationRegistered(base) ==
    \E key \in AllKeys, is_default \in BOOLEAN, c \in Classes :
        \E call \in {singleton_implementation(Store, base, key, is_default, c),
                     instance_implementation(Store, base, key, is_default, c)} :
            /\ call.out.outcome = "return"
            /\ dependencies' = call.st.deps

\* C11: resolve(B) of an abstract base fails with NoImplementations as long
\* as its mapping holds the seed only, the mapping leaves that state only by
\* an implementation registration that succeeds, and from then on resolve(B)
\* does not fail with NoImplementations.
C11_NoImplementationsUntilRegistered ==
    [][\A base \in Classes : IsAbstractBase(base) =>
          /\ SeedOnly(base) =>
                Resolve(base, FALSE) = Call(Store, InjectionException(
                    "NoImplementations", <<Name(base)>>))
          /\ ~SeedOnly(base) =>
                ~IsInjectionException(Resolve(base, FALSE).out,
                                      "NoImplementations")
          /\ (SeedOnly(base) /\ ~SeedOnly(base)') =>
                ImplementationRegistered(base)]_vars

\* the calls of the two implementation decorators with the base given
ImplementationCalls(base) ==
    {singleton_implementation(Store, base, key, is_default, c) :
        key \in AllKeys, is_default \in BOOLEAN, c \in Classes}
    \cup {instance_implementation(Store, base, key, is_default, c) :
        key \in AllKeys, is_default \in BOOLEAN, c \in Classes}

\* C12: an implementation decorator whose base is not registered as an
\* abstract base, be it unregistered, a Singleton or an Instance, fails with
\* InjectionException, cause UnregisteredBase, and registers nothing.
C12_NonAbstractBaseIsUnregisteredBase ==
    \A base \in Classes : ~IsAbstractBase(base) =>
        \A call \in ImplementationCalls(base) :
            /\ IsInjectionException(call.out, "UnregisteredBase")
            /\ call.st = Store

\* every call the public surface offers in the current state
AnyCall ==
    UNION {RegistrationCalls(c) : c \in Classes}
        \cup {_inject_arg(Store, annotation, ctorRaises) :
                annotation \in Annotations, ctorRaises \in BOOLEAN}
        \cup UNION {{_resolve_from_key(Store, base, key, ctorRaises) :
                        key \in AllKeys, ctorRaises \in BOOLEAN} :
                    base \in {b \in Classes : IsAbstractBase(b)}}

\* the calls of the two implementation decorators with is_default=True
DefaultCalls(base, key, c) ==
    {singleton_implementation(Store, base, key, TRUE, c),
     instance_implementation(Store, base, key, TRUE, c)}

\* C13: once the entry under the default sentinel of an abstract base is a
\* class, no call changes it, and every implementation decorator with
\* is_default=True for that base fails with DuplicateDefault, naming the
\* class, the base and the default there is, whatever the key, and changes
\* nothing.
C13_DefaultIsNeverReplaced ==
    \A base \in Classes :
        (IsAbstractBase(base) /\ DefaultOf(base).type = "type") =>
            /\ \A call \in AnyCall :
                  call.st.deps[base].items[DefaultImplementation]
                      = DefaultOf(base)
            /\ \A key \in AllKeys, c \in Classes :
                  \A call \in DefaultCalls(base, key, c) :
                      call = Call(Store, InjectionException("DuplicateDefault",
                                 <<Name(c), Name(base),
                                   Name(DefaultOf(base).cls)>>))

\* a base has a default and, under another key, another implementation; a
\* further default is refused whatever key it comes with
C13_Witness ==
    \E base \in Classes :
        /\ IsAbstractBase(base)
        /\ DefaultOf(base).type = "type"
        /\ \E key \in ImplementationKeys(base) \ {DefaultImplementation} :
              dependencies[base].items[key] # DefaultOf(base)
        /\ \A key \in AllKeys, c \in Classes :
              IsInjectionException(
                  singleton_implementation(Store, base, key, TRUE, c).out,
                  "DuplicateDefault")

\* the calls of the two implementation decorators with is_default=False
KeyedCalls(base, key, c) ==
    {singleton_implementation(Store, base, key, FALSE, c),
     instance_implementation(Store, base, key, FALSE, c)}

\* C14: an implementation decorator whose key is already in the mapping of
\* the abstract base fails with DuplicateKey, naming the class that holds the
\* key, and no call replaces the class a key maps to.  Stated for the calls
\* with is_default=False, which the default test does not stop first.
C14_TakenKeyIsDuplicateKey ==
    \A base \in Classes : IsAbstractBase(base) =>
        /\ \A key \in DOMAIN dependencies[base].items, c \in Classes :
              \A call \in KeyedCalls(base, key, c) :
                  /\ IsInjectionException(call.out, "DuplicateKey")
                  /\ call.st = Store
                  /\ dependencies[base].items[key].type = "type" =>
                        call.out.names =
                            <<Name(c), Name(base), key,
                              Name(dependencies[base].items[key].cls)>>
        /\ \A key \in ImplementationKeys(base) \ {DefaultImplementation} :
              \A call \in AnyCall :
                  call.st.deps[base].items[key] = dependencies[base].items[key]

\* C15: an implementation decorator with is_default=True, applied to a class
\* that has an attribute named resolve_from_key, fails and leaves the
\* registry as it is; where the base has no default yet and the key is free
\* the failure is ReservedCapabilityConflict, naming the class and the base.
\* With is_default=False, a free key and the class not registered yet, the
\* same class is accepted: the key maps to it and it is registered.
C15_DefaultMustNotHaveResolveFromKey ==
    \A base \in Classes, c \in Classes :
        (IsAbstractBase(base) /\ ClassHasResolveFromKey(c)) =>
            \A key \in AllKeys :
                LET items == dependencies[base].items
                    free == key \notin DOMAIN items
                IN  /\ \A call \in DefaultCalls(base, key, c) :
                          /\ call.out.outcome = "raise"
                          /\ call.st = Store
                          /\ (free /\ DefaultOf(base).type
                                        = "ImplementationFactory")
                             => call.out = InjectionException(
                                    "ReservedCapabilityConflict",
                                    <<Name(c), Name(base)>>)
                    /\ (free /\ c \notin DOMAIN dependencies) =>
                          \A call \in KeyedCalls(base, key, c) :
                              /\ call.out = Return(TypeValue(c))
                              /\ call.st.deps[base] =
                                    DictValue((key :> TypeValue(c)) @@ items)
                              /\ c \in DOMAIN call.st.deps
                              /\ call.st.deps[c] \in {NoneValue, InstanceSentinel}

\* a class with a resolve_from_key of its own sits under a key of a base
\* that has no default, registered in its own right, and is refused as default
C15_Witness ==
    \E base \in Classes, c \in Classes :
        /\ IsAbstractBase(base)
        /\ ClassHasResolveFromKey(c)
        /\ c # base
        /\ IsSingleton(c) \/ IsInstance(c)
        /\ DefaultOf(base).type = "ImplementationFactory"
        /\ \E key \in ImplementationKeys(base) :
              dependencies[base].items[key] = TypeValue(c)
        /\ \E key \in Keys \ DOMAIN dependencies[base].items :
              IsInjectionException(
                  instance_implementation(Store, base, key, TRUE, c).out,
                  "ReservedCapabilityConflict")

\* C16: resolving an annotation that matches no registration, a class or a
\* str, fails with InjectionException, cause UnresolvedDependency, and
\* constructs and registers nothing.
C16_UnmatchedIdentityIsUnresolvedDependency ==
    \A annotation \in Annotations \ {ParameterEmpty} :
        _is_dependency_present(Store, annotation) = NoneValue =>
            \A ctorRaises \in BOOLEAN :
                LET call == _inject_arg(Store, annotation, ctorRaises)
                IN  /\ IsInjectionException(call.out, "UnresolvedDependency")
                    /\ call.st = Store

\* resolve(c) in the registry a call left
ResolveAfter(call, c) == _inject_arg(call.st, TypeValue(c), FALSE)

\* C17: when an implementation decorator returns, the class is registered
\* in its own right with the decorator's kind, and resolving it by its own
\* identity right then follows that kind: singleton_implementation leaves an
\* empty cache that the resolve fills with the instance it returns,
\* instance_implementation leaves the Instance mark and the resolve returns a
\* new instance and keeps none.  The value is as the constructor made it:
\* the base attaches nothing to it.
C17_ImplementationIsRegisteredByItself ==
    \A base \in Classes, key \in AllKeys, is_default \in BOOLEAN,
       c \in Classes :
        LET s == singleton_implementation(Store, base, key, is_default, c)
            i == instance_implementation(Store, base, key, is_default, c)
            made == ObjectValue(Len(heap) + 1)
        IN  /\ s.out.outcome = "return" =>
                  /\ s.st.deps[c] = NoneValue
                  /\ ResolveAfter(s, c).out = Return(made)
                  /\ ResolveAfter(s, c).st.deps[c] = made
                  /\ ResolveAfter(s, c).st.heap = Append(heap, NewObject(c))
            /\ i.out.outcome = "return" =>
                  /\ i.st.deps[c] = InstanceSentinel
                  /\ ResolveAfter(i, c).out = Return(made)
                  /\ ResolveAfter(i, c).st.deps = i.st.deps
                  /\ ResolveAfter(i, c).st.heap = Append(heap, NewObject(c))

\* the default implementation of a base is an Instance; one instance of it
\* was resolved through the base and carries the extension, another was
\* resolved by the class's own identity and carries none
C17_Witness ==
    \E base \in Classes :
        /\ HasConcreteDefault(base)
        /\ IsInstance(DefaultOf(base).cls)
        /\ \E id1, id2 \in ObjectsOf(DefaultOf(base).cls) :
              /\ heap[id1].resolve_from_key = base
              /\ heap[id2].resolve_from_key = NoAttribute

\* the parameters the loop of _inject_needed hands to _inject_arg
Injected(func, args) ==
    SelectSeq(ParametersBeyond(func, args), LAMBDA arg :
        _is_injectable_argument(arg) /\ ~_is_method_target_argument(arg))

\* the names of the parameters the caller gave a value for
Supplied(func, args, kwargs) ==
    {PositionalParameters(func)[i].name :
        i \in 1..Len(args) \cap 1..Len(PositionalParameters(func))}
    \cup (kwargs \cap ParameterNames(func,
                         {"POSITIONAL_OR_KEYWORD", "KEYWORD_ONLY"}))

\* C18: a parameter the caller gave a value for, by position or by keyword,
\* is not resolved, and a call that gives every required parameter a value
\* reaches the callable as the caller made it and leaves the registry alone.
C18_SuppliedParameterIsNotInjected ==
    \A func \in Functions, args \in Arguments, kwargs \in KeywordArguments :
        /\ \A i \in DOMAIN Injected(func, args) :
              Injected(func, args)[i].name \notin Supplied(func, args, kwargs)
        /\ CallFunction(func, args, kwargs).outcome = "return" =>
              \A ctorRaises \in BOOLEAN :
                  _inject_needed(Store, func, args, kwargs, ctorRaises)
                      = Call(Store, CallFunction(func, args, kwargs))

\* what resolving the annotation returned is an instance of the class
\* annotated, where the class is a Singleton or an Instance
ResolvedFrom(st, annotation, v) ==
    (/\ annotation.type = "type"
     /\ annotation.cls \in DOMAIN st.deps
     /\ st.deps[annotation.cls].type # "dict")
    => v.type = "object" /\ st.heap[v.id].cls = annotation.cls

Injectors == {"HinteDI", "TestInjector"}
ParentOf(injector) == IF injector = "TestInjector" THEN "HinteDI" ELSE "object"
AssignsDependencies(injector) == injector = "HinteDI"

\* the class whose dict cls.dependencies denotes
RECURSIVE DependenciesOwner(_)
DependenciesOwner(injector) ==
    IF AssignsDependencies(injector) THEN injector
    ELSE DependenciesOwner(ParentOf(injector))

\* injector.dependencies after a registration call made through another
\* injector: the call writes the dict that other injector's attribute denotes
DependenciesAfter(injector, through, call) ==
    IF DependenciesOwner(injector) = DependenciesOwner(through)
    THEN call.st.deps
    ELSE dependencies

\* C20: a registration made through one injector class leaves the
\* dependencies of every other injector class as they were: the class
\* registered is not in them.
C20_InjectorsAreIndependent ==
    \A through \in Injectors : \A injector \in Injectors \ {through} :
        \A c \in Classes : \A call \in RegistrationCalls(c) :
            DependenciesAfter(injector, through, call) = dependencies

\* the first parameter without annotation among those the loop injects
FirstUnannotated(selected) ==
    CHOOSE i \in DOMAIN selected :
        /\ selected[i].annotation = ParameterEmpty
        /\ \A j \in 1..(i - 1) : selected[j].annotation # ParameterEmpty

\* C21: a call that selects a parameter without annotation for injection
\* never reaches the wrapped callable: it raises out of the injection loop.
\* Where the selected parameters before the unannotated one resolve, the
\* failure is InjectionException, cause MissingAnnotation, raised in the
\* registry those resolutions left; where one of them fails, that failure
\* comes first.  Resolving an unannotated parameter by itself fails with
\* MissingAnnotation whatever is registered, and changes nothing.
C21_UnannotatedParameterIsMissingAnnotation ==
    /\ \A ctorRaises \in BOOLEAN :
          _inject_arg(Store, ParameterEmpty, ctorRaises)
              = Call(Store, InjectionException("MissingAnnotation", <<>>))
    /\ \A func \in Functions, args \in Arguments, kwargs \in KeywordArguments,
          ctorRaises \in BOOLEAN :
          LET selected == Injected(func, args)
              call == _inject_needed(Store, func, args, kwargs, ctorRaises)
          IN  (\E i \in DOMAIN selected :
                    selected[i].annotation = ParameterEmpty) =>
                LET earlier == SubSeq(selected, 1,
                                      FirstUnannotated(selected) - 1)
                    before == InjectEach(Store, earlier, <<>>, ctorRaises)
                IN  /\ call.out.outcome = "raise"
                    /\ call.out.exc # "TypeError"
                    /\ before.out.outcome = "return" =>
                          call = Call(before.st, InjectionException(
                                                    "MissingAnnotation", <<>>))
                    /\ before.out.outcome = "raise" => call = before

\* the Singleton that the annotated parameter of partly_annotated names has
\* been constructed, and the call fails on the parameter after it
C21_Witness ==
    /\ "m.Impl" \in DOMAIN dependencies
    /\ dependencies["m.Impl"].type = "object"
    /\ _inject_needed(Store, partly_annotated, <<>>, {}, FALSE)
          = Call(Store, InjectionException("MissingAnnotation", <<>>))
    /\ _inject_needed(Store, DependentClass_init,
                      <<PositionalValue(1)>>, {}, FALSE)
          = Call(Store, InjectionException("MissingAnnotation", <<>>))

\* C22: every class an abstract base's mapping holds, under a key or under
\* the default sentinel, is registered in its own right as a Singleton or an
\* Instance.
C22_ImplementationsAreRegisteredConcrete ==
    \A base \in Classes : IsAbstractBase(base) =>
        \A key \in DOMAIN dependencies[base].items :
            LET entry == dependencies[base].items[key]
            IN  entry.type = "type" =>
                    /\ entry.cls \in DOMAIN dependencies
                    /\ IsSingleton(entry.cls) \/ IsInstance(entry.cls)

\* the keys of the mapping a record holds; none for a Singleton or Instance
MappingKeys(deps, c) ==
    IF deps[c].type = "dict" THEN DOMAIN deps[c].items ELSE {}

\* C23: no step removes a registered class or a key of an abstract base's
\* mapping: after every step the registered classes, and the keys of every
\* mapping, include those there were before it.
C23_RegistryOnlyGrows ==
    [][/\ DOMAIN dependencies \subseteq DOMAIN dependencies'
       /\ \A c \in DOMAIN dependencies :
             /\ IsAbstractBase(c) => dependencies'[c].type = "dict"
             /\ MappingKeys(dependencies, c)
                    \subseteq MappingKeys(dependencies', c)]_vars

\* a base's mapping has grown to a default and a further key, and a
\* Singleton and an Instance are registered
C23_Witness ==
    \E base \in Classes :
        /\ IsAbstractBase(base)
        /\ Cardinality(DOMAIN dependencies[base].items) = 3
        /\ Cardinality(DOMAIN dependencies) = 3
        /\ heap # <<>>

\* what a constructor that raises raises: the exception of the user's code
ConstructionFailure(c) == Raise("UserError", "ConstructorRaised", <<Name(c)>>)

\* C24: a resolve of a Singleton with an empty cache whose constructor
\* raises raises the constructor's exception and leaves the registry and
\* the objects as they were; the next resolve constructs anew, raising again
\* with nothing kept if the constructor raises again, and returning and
\* caching a newly constructed instance if it does not.  No call, made by
\* class, by name, through a base or through a key, keeps anything when a
\* constructor raises in it.
C24_FailedConstructionLeavesCacheEmpty ==
    /\ \A c \in Classes :
          (IsSingleton(c) /\ dependencies[c] = NoneValue) =>
              LET failed == Resolve(c, TRUE)
                  again == _inject_arg(failed.st, TypeValue(c), TRUE)
                  next == _inject_arg(failed.st, TypeValue(c), FALSE)
              IN  /\ failed = Call(Store, ConstructionFailure(c))
                  /\ again = failed
                  /\ ReturnsFresh(next, c)
                  /\ next.st.deps[c] = next.out.value
    /\ \A call \in AnyCall :
          (call.out.outcome = "raise" /\ call.out.exc = "UserError") =>
              call.st = Store

\* a base's default implementation is a Singleton that no resolve has
\* constructed yet, an instance of another class exists, and resolving the
\* Singleton by itself or through the base raises what its constructor raises
C24_Witness ==
    \E base \in Classes :
        /\ HasConcreteDefault(base)
        /\ dependencies[DefaultOf(base).cls] = NoneValue
        /\ heap # <<>>
        /\ Resolve(DefaultOf(base).cls, TRUE)
              = Call(Store, ConstructionFailure(DefaultOf(base).cls))
        /\ Resolve(base, TRUE)
              = Call(Store, ConstructionFailure(DefaultOf(base).cls))

\* the objects that carry the extension resolve(B) attached, bound to a base
Extended == {id \in DOMAIN heap : BoundBase(id) \in Classes}

\* the keys of base's mapping that hold a Singleton or an Instance whose
\* class and constructor give its instances no resolve_from_key of their own
PlainKeys(base) ==
    {key \in ImplementationKeys(base) :
        LET I == dependencies[base].items[key].cls
        IN  /\ IsSingleton(I) \/ IsInstance(I)
            /\ ~ClassDefinesResolveFromKey(I)
            /\ ~CtorSetsResolveFromKey(I)}

\* C25 as stated: value.resolve_from_key(key), on a value resolve(B)
\* returned with the extension, returns for every key of B's mapping a value
\* that does not expose resolve_from_key.  Stated for the bases that have a
\* default and no key "default", and for the keys that hold a Singleton or
\* an Instance that has no resolve_from_key of its own.
C25_PivotedValueNeverExposesExtension ==
    \A id \in Extended :
        (/\ HasConcreteDefault(BoundBase(id))
         /\ "default" \notin DOMAIN dependencies[BoundBase(id)].items) =>
            \A key \in PlainKeys(BoundBase(id)) :
                LET pivot == _resolve_from_key(Store, BoundBase(id), key, FALSE)
                IN  pivot.out.outcome = "return" =>
                        ~HasResolveFromKey(pivot.st, pivot.out.value)

\* C25, amended: value.resolve_from_key(key) attaches nothing.  For a key
\* that holds a Singleton or an Instance without a resolve_from_key of its
\* own, the objects there were keep their attributes, and the value returned
\* exposes resolve_from_key exactly when it is a cached Singleton that an
\* earlier resolve of a base returned as its default, the extension that
\* resolve attached still on it; a value the call constructs exposes none.
C25_PivotAttachesNothing ==
    \A id \in Extended : \A key \in PlainKeys(BoundBase(id)) :
        LET I == dependencies[BoundBase(id)].items[key].cls
            pivot == _resolve_from_key(Store, BoundBase(id), key, FALSE)
            v == pivot.out.value
        IN  /\ pivot.out.outcome = "return"
            /\ SubSeq(pivot.st.heap, 1, Len(heap)) = heap
            /\ HasResolveFromKey(pivot.st, v) <=>
                  /\ dependencies[I] = v
                  /\ v.id \in Extended
            /\ v.id \notin DOMAIN heap =>
                  pivot.st.heap[v.id] = [cls |-> I,
                                         resolve_from_key |-> NoAttribute]

\* a base's default is a Singleton that resolve(B) has returned, extension
\* attached: the pivot to the default's own key returns that Singleton, which
\* exposes resolve_from_key, and constructs nothing
C25_Witness ==
    \E id \in Extended :
        LET base == BoundBase(id)
        IN  /\ HasConcreteDefault(base)
            /\ "default" \notin DOMAIN dependencies[base].items
            /\ dependencies[DefaultOf(base).cls] = ObjectValue(id)
            /\ \E key \in PlainKeys(base) :
                  LET pivot == _resolve_from_key(Store, base, key, FALSE)
                  IN  /\ pivot = Call(Store, Return(ObjectValue(id)))
                      /\ HasResolveFromKey(pivot.st, pivot.out.value)

\* the str forms that name a class: the trailing segment of its dotted
\* path, and what str(cls) prints
TrailingName(c) == DropLastTwo(LastDotSegment(StrOfClass(c)))
StringForms(c) == {TrailingName(c), StrOfClass(c)}

\* C26: resolving a registered class by one of its string forms finds that
\* class's registration and does what resolving by the class does: the same
\* return or raise and the same registry afterwards, whatever else is
\* registered.
C26_StringFormResolvesAsType ==
    \A c \in DOMAIN dependencies : \A s \in StringForms(c) :
        /\ _is_dependency_present(Store, StrValue(s)) = TypeValue(c)
        /\ \A ctorRaises \in BOOLEAN :
              _inject_arg(Store, StrValue(s), ctorRaises)
                  = Resolve(c, ctorRaises)

\* C27: no two registered classes have the same __name__, and every
\* registration of a class whose __name__ a registered class has is refused
\* and changes nothing.
C27_SameNameNeverRegisteredTwice ==
    /\ \A c \in DOMAIN dependencies, d \in DOMAIN dependencies :
          Name(c) = Name(d) => c = d
    /\ \A c \in Classes :
          (\E d \in DOMAIN dependencies : Name(d) = Name(c)) =>
              \A call \in ReRegistrationCalls(c) :
                  call.out.outcome = "raise" /\ call.st = Store

\* every resolution the public surface offers in the current state: an
\* injected parameter, an injected call, a pivot on a base's factory or on
\* the extension bound to the base
ResolutionCalls ==
    {_inject_arg(Store, annotation, ctorRaises) :
        annotation \in Annotations, ctorRaises \in BOOLEAN}
    \cup {_inject_needed(Store, func, <<>>, {}, ctorRaises) :
            func \in Functions, ctorRaises \in BOOLEAN}
    \cup UNION {{_resolve_from_key(Store, base, key, ctorRaises) :
                    key \in AllKeys, ctorRaises \in BOOLEAN} :
                base \in {b \in Classes : IsAbstractBase(b)}}

\* C28: a resolution registers and unregisters nothing and leaves every
\* mapping and every record's kind as it was.  The records it changes are
\* Singletons whose cache was empty, and each of them now holds an instance
\* of its class that the call constructed; a single resolve or pivot fills
\* one cache at most, and returns what it filled it with.
C28_ResolutionOnlyFillsCaches ==
    \A call \in ResolutionCalls :
        LET filled == {c \in DOMAIN dependencies :
                          call.st.deps[c] # dependencies[c]}
        IN  /\ DOMAIN call.st.deps = DOMAIN dependencies
            /\ call.st.order = order
            /\ \A c \in filled :
                  /\ dependencies[c] = NoneValue
                  /\ call.st.deps[c].type = "object"
                  /\ call.st.deps[c].id \notin DOMAIN heap
                  /\ call.st.heap[call.st.deps[c].id].cls = c
            /\ (call.out.outcome = "return" /\ call.out.value.type # "frame")
                  => \A c \in filled : call.out.value = call.st.deps[c]

\* resolve(B) has filled the cache of B's default Singleton and attached the
\* extension to the instance, and an Instance has been resolved and its
\* record is the Instance mark still
C28_Witness ==
    \E base \in Classes, id \in DOMAIN heap, c \in Classes :
        /\ HasConcreteDefault(base)
        /\ dependencies[DefaultOf(base).cls] = ObjectValue(id)
        /\ heap[id].resolve_from_key = base
        /\ IsInstance(c)
        /\ ObjectsOf(c) # {}

\* C29: the factory of a base and the extension bound to it look the key up
\* in the mapping as it is when they are called.  When an implementation
\* decorator for base B, key K and class I returns, a pivot to K that failed
\* with UnresolvableKey before it, on the factory and on every value that
\* carries the extension bound to B, does after it what resolving I does:
\* the same value or failure and the same registry.
C29_PivotReadsLiveMapping ==
    \A base \in Classes : IsAbstractBase(base) =>
        \A key \in AllKeys, c \in Classes :
            \A call \in DefaultCalls(base, key, c) \cup KeyedCalls(base, key, c) :
                call.out.outcome = "return" =>
                    \A ctorRaises \in BOOLEAN :
                        LET before == ImplementationFactory_resolve_from_key(
                                          Store, base, key, ctorRaises)
                            after == ImplementationFactory_resolve_from_key(
                                         call.st, base, key, ctorRaises)
                        IN  /\ before = Call(Store, InjectionException(
                                             "UnresolvableKey", <<key, Name(base)>>))
                            /\ after = _inject_arg(call.st, TypeValue(c),
                                                   ctorRaises)
                            /\ ~IsInjectionException(after.out, "UnresolvableKey")
                            /\ ~ctorRaises =>
                                  /\ after.out = Return(ObjectValue(Len(heap) + 1))
                                  /\ after.st.heap = Append(heap, NewObject(c))
                            /\ \A id \in Extended : BoundBase(id) = base =>
                                  /\ call.st.heap[id] = heap[id]
                                  /\ _resolve_from_key(call.st,
                                         call.st.heap[id].resolve_from_key,
                                         key, ctorRaises) = after

\* a value carries the extension bound to a base whose mapping has a free
\* key, a class is not registered, and registering it under that key makes
\* the pivot on the value return a new instance of the class
C29_Witness ==
    \E id \in Extended, key \in Keys, c \in Classes :
        LET base == BoundBase(id)
            call == instance_implementation(Store, base, key, FALSE, c)
        IN  /\ HasConcreteDefault(base)
            /\ IsInjectionException(
                   _resolve_from_key(Store, base, key, FALSE).out,
                   "UnresolvableKey")
            /\ call.out = Return(TypeValue(c))
            /\ _resolve_from_key(call.st, call.st.heap[id].resolve_from_key,
                                  key, FALSE).out
                  = Return(ObjectValue(Len(heap) + 1))

\* the call failed while resolving one of its parameters: the failures of
\* _inject_arg and of what it calls, a constructor's own exception aside
FailedResolving(out) ==
    /\ out.outcome = "raise"
    /\ out.exc = "InjectionException"
    /\ out.cause \in {"MissingAnnotation", "UnresolvedDependency",
                      "NoImplementations"}

\* C30: an injected call that fails while resolving a parameter, for a
\* missing annotation, an unregistered class or a base without
\* implementations, leaves the registry and the objects as they were before
\* the call.
C30_FailedInjectionChangesNothing ==
    \A func \in Functions, args \in Arguments, kwargs \in KeywordArguments :
        LET call == _inject_needed(Store, func, args, kwargs, FALSE)
        IN  FailedResolving(call.out) => call.st = Store
====
